---------------------------- MODULE Spec2Model ----------------------------
(***************************************************************************)
(* Model of the chat client: the OllamaProvider (src/llm_provider.py), the *)
(* ModelSettingsPanel and the ChatApp request lifecycle                    *)
(* (src/chatbot_app.py).                                                   *)
(*                                                                         *)
(* Texts are sequences of tokens, so that str.strip(), f-string            *)
(* concatenation and "contains" are computed and not assumed.  Python's    *)
(* None is the value NONE.  Temperatures are in tenths (7 is 0.7).         *)
(***************************************************************************)
EXTENDS Integers, Sequences, FiniteSets, TLC

(***************************************************************************)
(* Bounds of the model.                                                    *)
(***************************************************************************)
MaxSubmits == 2   \* accepted send_message events
MaxSaved == 1     \* successful saves (each posts a transcript line)
MaxAppSubmits == 1 \* accepted send_message events beside the settings panel

(***************************************************************************)
(* Program constants.                                                      *)
(***************************************************************************)
DefaultTemperature == 7      \* self.temperature = 0.7
SliderMin == 0               \* ft.Slider(min=0, ...)
SliderMax == 20              \* ft.Slider(max=2.0, ...)

NONE == "<None>"
DefaultHost == <<"http://127.0.0.1:11434">>
OtherHost == <<"http://10.0.0.2:11434">>
DefaultModel == "mistral"
OtherModel == "llama3"
NoModelsFound == "No models found"

(***************************************************************************)
(* Python helpers.                                                         *)
(***************************************************************************)
IsSpace(c) == c = " "

RECURSIVE lstrip(_)
lstrip(s) == IF s # <<>> /\ IsSpace(Head(s)) THEN lstrip(Tail(s)) ELSE s

RECURSIVE rstrip(_)
rstrip(s) ==
    IF s # <<>> /\ IsSpace(s[Len(s)]) THEN rstrip(SubSeq(s, 1, Len(s) - 1)) ELSE s

\* str.strip()
strip(s) == rstrip(lstrip(s))

\* dict.get(key, default)
DictGet(d, k, default) == IF k \in DOMAIN d THEN d[k] ELSE default

\* str(x) inside an f-string, for a model name or None
StrOf(x) == IF x = NONE THEN "None" ELSE x

\* str(x) for a temperature in tenths
StrOfTemp(t) ==
    IF t < 0 THEN "-" \o ToString((0 - t) \div 10) \o "." \o ToString((0 - t) % 10)
    ELSE ToString(t \div 10) \o "." \o ToString(t % 10)

\* x in s, for a token x and a text s
Contains(s, x) == \E i \in 1..Len(s) : s[i] = x

\* s contains the text r as a contiguous part
ContainsText(s, r) ==
    \E i \in 0..(Len(s) - Len(r)) : SubSeq(s, i + 1, i + Len(r)) = r

(***************************************************************************)
(* The backend, as seen through ollama.Client: every call either raises    *)
(* (connection failure, error status) or returns a payload, which may be   *)
(* malformed.                                                              *)
(***************************************************************************)
ConnectionRefused == <<"connection refused">>
ErrorStatus == <<"model not found (status code: 404)">>
NotADict == <<"'NoneType' object has no attribute 'get'">>

\* a value that is no dict (None): calling .get on it raises AttributeError
NotDict == [nodict |-> TRUE]
IsDict(x) == "nodict" \notin DOMAIN x
EmptyDict == <<>>

Raises(reason) == [kind |-> "raise", reason |-> reason]
Returns(payload) == [kind |-> "return", payload |-> payload]

Faults == {Raises(ConnectionRefused), Raises(ErrorStatus)}

\* a listing entry as the backend's REST interface gives it (both keys), and as
\* the ollama library's typed response gives it (the 'model' key alone)
EntryWithName(m) == [model |-> m, name |-> m]
EntryModelOnly(m) == [model |-> m]

Catalogs ==
    { <<>>,
      <<EntryWithName(DefaultModel)>>,
      <<EntryModelOnly(OtherModel)>>,
      <<EntryWithName(OtherModel), EntryWithName(DefaultModel)>>,
      <<EntryModelOnly(OtherModel), EntryModelOnly(DefaultModel)>> }

\* payloads of client.list() and client.ps(): a dict with 'models', a dict
\* without it, a 'models' value whose entries are not dicts, and no dict at all
ListPayloads ==
    { [models |-> c] : c \in Catalogs }
        \cup { [other |-> 0], [models |-> <<NotDict>>], NotDict }

ListOutcomes == Faults \cup { Returns(p) : p \in ListPayloads }

ReplyText == <<"hi there">>
NoResponse == <<"No response from model">>

\* payloads of client.chat(): a message with content, a message without, no
\* 'message' key, a 'message' that is no dict
ChatPayloads ==
    { [message |-> [content |-> ReplyText]],
      [message |-> [role |-> "assistant"]],
      [done |-> TRUE],
      [message |-> NotDict] }

ChatOutcomes == Faults \cup { Returns(p) : p \in ChatPayloads }

GeneratePayloads == { [response |-> ReplyText], [done |-> TRUE], NotDict }
GenerateOutcomes == Faults \cup { Returns(p) : p \in GeneratePayloads }

\* the code fence of markdown (three backticks), bare and with the json tag
Fence == "<fence>"
FenceJson == "<fence>json"

\* a JSON document
JsonDoc == "{}"

\* texts a model answers a request for JSON with
RawTexts ==
    { <<JsonDoc>>,
      <<" ", JsonDoc, " ">>,
      <<FenceJson, JsonDoc, Fence>>,
      <<"Here it is:", Fence, " ", JsonDoc, Fence, "Anything else?">>,
      <<"not json">>,
      <<" ", "not json">>,
      <<FenceJson, "not json", Fence>>,
      <<Fence, JsonDoc, "not json">>,
      <<>> }

JsonOutcomes ==
    GenerateOutcomes \cup { Returns([response |-> t]) : t \in RawTexts }

ShowPayloads == { [details |-> [family |-> "llama"]], NotDict }
ShowOutcomes == Faults \cup { Returns(p) : p \in ShowPayloads }

AdminOutcomes == Faults \cup { Returns(NotDict) }

(***************************************************************************)
(* Results of a Python call: a returned value or a raised exception.       *)
(***************************************************************************)
Ret(v) == [raised |-> FALSE, value |-> v]
Exc(reason) == [raised |-> TRUE, reason |-> reason]

\* an error text that leaves the reason out
ErrorText_noreason(reason) == <<"Error: ">>

\* f"Error: {str(e)}"
ErrorText(reason) == <<"Error: ">> \o reason

\* self.client.<method>(...): the library call raises or returns the payload
ClientCall(outcome) ==
    IF outcome.kind = "raise" THEN Exc(outcome.reason) ELSE Ret(outcome.payload)

\* x.get(key, default), which raises AttributeError when x is no dict
GetOf(x, k, default) ==
    IF IsDict(x) THEN Ret(DictGet(x, k, default)) ELSE Exc(NotADict)

(***************************************************************************)
(* OllamaProvider.  Each operation is given the outcome of its backend     *)
(* call and yields the Python result: Ret(value) or Exc(reason).  The      *)
(* *_try operators are the bodies of the try blocks.                       *)
(***************************************************************************)

\* temp = temperature if temperature is not None else self.temperature
\* (an optional argument is <<>> for None and <<t>> for t)
EffectiveTemperature(arg, self_temperature) ==
    IF arg # <<>> THEN arg[1] ELSE self_temperature

\* what generate_chat hands to self.client.chat
ChatRequest(self_client, self_model_name, self_temperature, messages, arg) ==
    [ host |-> self_client,
      model |-> self_model_name,
      messages |-> messages,
      temperature |-> EffectiveTemperature(arg, self_temperature) ]

\* a generate_chat that reads the answer under the key of generate_text
generate_chat_try_response(outcome) ==
    LET response == ClientCall(outcome) IN
    IF response.raised THEN response
    ELSE GetOf(response.value, "response", NoResponse)

generate_chat_try(outcome) ==
    LET response == ClientCall(outcome) IN
    IF response.raised THEN response
    ELSE LET message == GetOf(response.value, "message", EmptyDict) IN
         IF message.raised THEN message
         ELSE GetOf(message.value, "content", NoResponse)

generate_chat(outcome) ==
    LET r == generate_chat_try(outcome) IN
    IF r.raised THEN Ret(ErrorText(r.reason)) ELSE r

\* what generate_text hands to self.client.generate
GenerateRequest(self_client, self_model_name, self_temperature, prompt, arg) ==
    [ host |-> self_client,
      model |-> self_model_name,
      prompt |-> prompt,
      temperature |-> EffectiveTemperature(arg, self_temperature) ]

generate_text_try(outcome) ==
    LET response == ClientCall(outcome) IN
    IF response.raised THEN response
    ELSE GetOf(response.value, "response", NoResponse)

generate_text(outcome) ==
    LET r == generate_text_try(outcome) IN
    IF r.raised THEN Ret(ErrorText(r.reason)) ELSE r

\* str.split(sep)[1:] joined: the tokens after the first sep
RECURSIVE After(_, _)
After(s, sep) ==
    IF s = <<>> THEN <<>>
    ELSE IF Head(s) = sep THEN Tail(s) ELSE After(Tail(s), sep)

\* str.split(Fence)[0]: the tokens before the first one that starts a fence
RECURSIVE BeforeFence(_)
BeforeFence(s) ==
    IF s = <<>> THEN <<>>
    ELSE IF Head(s) \in {Fence, FenceJson} THEN <<>>
         ELSE <<Head(s)>> \o BeforeFence(Tail(s))

ExpectingValue == <<"Expecting value: line 1 column 1 (char 0)">>

\* json.loads: the parsed document, or JSONDecodeError
json_loads(json_text) ==
    IF json_text = <<JsonDoc>> THEN Ret(EmptyDict) ELSE Exc(ExpectingValue)

\* generate_json, lines 140-146: the text handed to json.loads
json_text_of(response_text) ==
    IF Contains(response_text, FenceJson)
    THEN strip(BeforeFence(After(response_text, FenceJson)))
    ELSE IF Contains(response_text, Fence)
         THEN strip(BeforeFence(After(response_text, Fence)))
         ELSE strip(response_text)

\* f"{prompt}\n\nRespond with valid JSON only."
formatted_prompt(prompt) == prompt \o <<"\n\nRespond with valid JSON only.">>

\* a generate_json that reports the text it tried to parse
generate_json_parsedtext(outcome) ==
    LET response_text == generate_text(outcome).value
        r == json_loads(json_text_of(response_text))
    IN
    IF r.raised
    THEN Ret([ error |-> <<"Failed to parse JSON: ">> \o r.reason,
               raw_text |-> json_text_of(response_text) ])
    ELSE r

\* generate_json on the outcome of the backend call generate_text makes
generate_json(outcome) ==
    LET response_text == generate_text(outcome).value
        r == json_loads(json_text_of(response_text))
    IN
    IF r.raised
    THEN Ret([ error |-> <<"Failed to parse JSON: ">> \o r.reason,
               raw_text |-> response_text ])
    ELSE r

get_available_models_try(outcome) ==
    LET models == ClientCall(outcome) IN
    IF models.raised THEN models ELSE GetOf(models.value, "models", <<>>)

get_available_models(outcome) ==
    LET r == get_available_models_try(outcome) IN
    IF r.raised THEN Ret(<<>>) ELSE r

get_running_models_try(outcome) ==
    LET ps_result == ClientCall(outcome) IN
    IF ps_result.raised THEN ps_result ELSE GetOf(ps_result.value, "models", <<>>)

get_running_models(outcome) ==
    LET r == get_running_models_try(outcome) IN
    IF r.raised THEN Ret(<<>>) ELSE r

get_model_info_try(outcome) == ClientCall(outcome)

get_model_info(outcome) ==
    LET r == get_model_info_try(outcome) IN
    IF r.raised THEN Ret([error |-> r.reason]) ELSE r

pull_model_try(model_name_arg, outcome) ==
    LET r == ClientCall(outcome) IN
    IF r.raised THEN r ELSE Ret([status |-> "success", model |-> model_name_arg])

pull_model(model_name_arg, outcome) ==
    LET r == pull_model_try(model_name_arg, outcome) IN
    IF r.raised THEN Ret([error |-> r.reason]) ELSE r

delete_model_try(outcome) ==
    LET r == ClientCall(outcome) IN
    IF r.raised THEN r ELSE Ret(TRUE)

delete_model(outcome) ==
    LET r == delete_model_try(outcome) IN
    IF r.raised THEN Ret(FALSE) ELSE r

\* [model.get(key, default) for model in models]; raises on an entry that is
\* no dict
AllDicts(models) == \A i \in 1..Len(models) : IsDict(models[i])

\* a set_model that takes any name once the listing is there
model_exists_any(available_models, model_name_arg) == TRUE

\* any(model.get('name') == model_name for model in available_models)
model_exists(available_models, model_name_arg) ==
    \E i \in 1..Len(available_models) :
        DictGet(available_models[i], "name", NONE) = model_name_arg

\* set_model: the value returned, and the model name the provider holds after
set_model_try(self_model_name, model_name_arg, outcome) ==
    LET available_models == get_available_models(outcome).value IN
    IF ~AllDicts(available_models) THEN Exc(NotADict)
    ELSE IF model_exists(available_models, model_name_arg)
         THEN [raised |-> FALSE, value |-> TRUE, model_name |-> model_name_arg]
         ELSE [raised |-> FALSE, value |-> FALSE, model_name |-> self_model_name]

set_model(self_model_name, model_name_arg, outcome) ==
    LET r == set_model_try(self_model_name, model_name_arg, outcome) IN
    IF r.raised
    THEN [raised |-> FALSE, value |-> FALSE, model_name |-> self_model_name]
    ELSE r

\* a constructor that takes the first entry whatever name was asked for
OllamaProviderInit_first(host_arg, model_name_arg, outcome) ==
    LET models == get_available_models(outcome).value IN
    [ host |-> host_arg,
      client |-> host_arg,
      model_name |-> IF models = <<>> THEN NONE
                     ELSE IF ~AllDicts(models) THEN model_name_arg
                     ELSE DictGet(models[1], "model", ""),
      temperature |-> DefaultTemperature ]

\* OllamaProvider.__init__(host, model_name): the fields after construction
OllamaProviderInit(host_arg, model_name_arg, outcome) ==
    LET models == get_available_models(outcome).value
        chosen ==
            IF models # <<>>
            THEN IF ~AllDicts(models) THEN model_name_arg   \* except: keep it
                 ELSE IF \E i \in 1..Len(models) :
                            DictGet(models[i], "model", "") = model_name_arg
                      THEN model_name_arg
                      ELSE DictGet(models[1], "model", "")
            ELSE NONE
    IN [ host |-> host_arg,
         client |-> host_arg,
         model_name |-> chosen,
         temperature |-> DefaultTemperature ]

(***************************************************************************)
(* State.                                                                  *)
(***************************************************************************)
VARIABLES
    host, client, model_name, temperature,       \* OllamaProvider fields
    visible, endpoint_input, model_combo,        \* ModelSettingsPanel widgets
    model_combo_options, temperature_slider,
    chat_input,                                  \* chat_input.value
    chat_display,                                \* chat_display.controls
    typing_indicator,                            \* typing_indicator.visible
    threads,                                     \* worker threads, by start order
    loop,                                        \* ChatApp.loop (asyncio loop)
    call                                         \* the operation applied last, when
                                                 \* operations are applied one by one

provider_vars == <<host, client, model_name, temperature>>
panel_vars ==
    <<visible, endpoint_input, model_combo, model_combo_options, temperature_slider>>
chat_vars == <<chat_input, chat_display, typing_indicator, threads, loop>>
vars == <<provider_vars, panel_vars, chat_vars, call>>

\* controls of the chat list
ChatMessage(user_name, text) ==
    [control |-> "ChatMessage", user_name |-> user_name, text |-> text]
TypingIndicator == [control |-> "typing_indicator"]

WelcomeText == <<"Welcome to the Chatbot Application! Type a message to begin.">>

\* the real messages of the chat list, in order
RECURSIVE Messages(_)
Messages(controls) ==
    IF controls = <<>> THEN <<>>
    ELSE IF Head(controls).control = "ChatMessage"
         THEN <<Head(controls)>> \o Messages(Tail(controls))
         ELSE Messages(Tail(controls))

\* list.remove(x): drops the first occurrence
RECURSIVE Remove(_, _)
Remove(controls, x) ==
    IF controls = <<>> THEN <<>>
    ELSE IF Head(controls) = x THEN Tail(controls)
         ELSE <<Head(controls)>> \o Remove(Tail(controls), x)

SettingsUpdatedText(model_name_arg, temperature_arg) ==
    << "*Settings updated:* Model: ", StrOf(model_name_arg),
       ", Temperature: ", StrOfTemp(temperature_arg) >>

IsSettingsUpdated(m) ==
    /\ m.control = "ChatMessage"
    /\ m.user_name = "Bot"
    /\ Len(m.text) = 4
    /\ m.text[1] = "*Settings updated:* Model: "

SavedCount ==
    Cardinality({ i \in 1..Len(chat_display) : IsSettingsUpdated(chat_display[i]) })

NoCall == [op |-> "none"]

(***************************************************************************)
(* ModelSettingsPanel.  The handlers read the widgets; the operators       *)
(* populate_models, refresh_endpoint and handle_save are what they compute *)
(* from the values read, and are also applied one by one further down.     *)
(***************************************************************************)
PaddedOtherHost == <<" ">> \o OtherHost \o <<" ">>
EndpointInputs == { DefaultHost, PaddedOtherHost, <<>> }

\* the values the slider can hold: min=0, max=2.0
SliderRange == SliderMin..SliderMax
SliderInputs == {SliderMin, DefaultTemperature, SliderMax} \cap SliderRange

\* the dropdown options _populate_models builds from a listing
RECURSIVE OptionsOf(_)
OptionsOf(models) ==
    IF models = <<>> THEN <<>>
    ELSE LET name == DictGet(Head(models), "model", "") IN
         IF name = "" THEN OptionsOf(Tail(models))
         ELSE <<name>> \o OptionsOf(Tail(models))

Truthy(name) == name # NONE /\ name # ""

\* _populate_models: the dropdown's new options and value
populate_models(self_model_name, combo_value, outcome) ==
    LET models == get_available_models(outcome).value
        current == IF Truthy(self_model_name) THEN self_model_name ELSE NONE
    IN
    IF models = <<>>
    THEN [options |-> <<NoModelsFound>>, value |-> current]
    ELSE IF ~AllDicts(models)
         THEN [options |-> <<"Error loading models">>, value |-> combo_value]
         ELSE [options |-> OptionsOf(models), value |-> current]

\* a refresh that records the new host and keeps the client it had
refresh_endpoint_hostonly(self_host, self_client, endpoint_raw) ==
    LET endpoint == strip(endpoint_raw) IN
    IF endpoint # <<>> /\ endpoint # self_host
    THEN [host |-> endpoint, client |-> self_client]
    ELSE [host |-> self_host, client |-> self_client]

\* _refresh_models, lines 345-351: the provider's host and client after
refresh_endpoint(self_host, self_client, endpoint_raw) ==
    LET endpoint == strip(endpoint_raw) IN
    IF endpoint # <<>> /\ endpoint # self_host
    THEN [host |-> endpoint, client |-> endpoint]
    ELSE [host |-> self_host, client |-> self_client]

\* _handle_save on the three values it reads from the widgets: the provider's
\* fields after, and whether it went on to on_save and _handle_close
handle_save(self, model_name_in, endpoint_raw, temperature_in, outcome) ==
    LET endpoint == strip(endpoint_raw)
        moved == endpoint # self.host
        host1 == IF moved THEN endpoint ELSE self.host
        client1 == IF moved THEN endpoint ELSE self.client
        attempted == Truthy(model_name_in) /\ model_name_in # NoModelsFound
        r == set_model(self.model_name, model_name_in, outcome)
    IN
    IF attempted /\ ~r.value
    THEN [ host |-> host1, client |-> client1, model_name |-> self.model_name,
           temperature |-> self.temperature, saved |-> FALSE ]
    ELSE [ host |-> host1, client |-> client1,
           model_name |-> IF attempted THEN r.model_name ELSE self.model_name,
           temperature |-> temperature_in, saved |-> TRUE ]

Self == [ host |-> host, client |-> client, model_name |-> model_name,
          temperature |-> temperature ]

\* ChatApp._on_settings_saved
on_settings_saved(controls, model_name_arg, temperature_arg) ==
    Append(controls,
           ChatMessage("Bot", SettingsUpdatedText(model_name_arg, temperature_arg)))

\* toggle_visibility (via ChatApp._toggle_model_settings)
ToggleVisibility(outcome) ==
    /\ visible' = ~visible
    /\ IF ~visible
       THEN LET w == populate_models(model_name, model_combo, outcome) IN
            /\ model_combo_options' = w.options
            /\ model_combo' = w.value
            /\ temperature_slider' = temperature
       ELSE UNCHANGED <<model_combo_options, model_combo, temperature_slider>>
    /\ UNCHANGED <<endpoint_input, provider_vars, chat_vars, call>>

\* the user types into the endpoint field
EditEndpoint(text) ==
    /\ visible
    /\ endpoint_input' = text
    /\ UNCHANGED <<visible, model_combo, model_combo_options, temperature_slider,
                   provider_vars, chat_vars, call>>

\* the user picks an option of the dropdown (_on_model_selected)
SelectModel(name) ==
    /\ visible
    /\ Contains(model_combo_options, name)
    /\ model_combo' = name
    /\ UNCHANGED <<visible, endpoint_input, model_combo_options, temperature_slider,
                   provider_vars, chat_vars, call>>

\* the user moves the slider (_update_temperature_label)
SlideTemperature(t) ==
    /\ visible
    /\ t \in SliderRange
    /\ temperature_slider' = t
    /\ UNCHANGED <<visible, endpoint_input, model_combo, model_combo_options,
                   provider_vars, chat_vars, call>>

\* _refresh_models
RefreshModels(outcome) ==
    /\ visible
    /\ LET after == refresh_endpoint(host, client, endpoint_input)
           w == populate_models(model_name, model_combo, outcome)
       IN
       /\ host' = after.host
       /\ client' = after.client
       /\ model_combo_options' = w.options
       /\ model_combo' = w.value
    /\ UNCHANGED <<visible, endpoint_input, temperature_slider, model_name,
                   temperature, chat_vars, call>>

\* _handle_save, with ChatApp._on_settings_saved as its on_save
HandleSave(outcome) ==
    /\ visible
    /\ SavedCount < MaxSaved
    /\ LET after == handle_save(Self, model_combo, endpoint_input,
                                temperature_slider, outcome)
       IN
       /\ host' = after.host
       /\ client' = after.client
       /\ model_name' = after.model_name
       /\ temperature' = after.temperature
       /\ IF after.saved
          THEN /\ chat_display' = on_settings_saved(chat_display, model_combo,
                                                    temperature_slider)
               /\ visible' = FALSE
          ELSE UNCHANGED <<chat_display, visible>>
    /\ UNCHANGED <<endpoint_input, model_combo, model_combo_options,
                   temperature_slider, chat_input, typing_indicator, threads,
                   loop, call>>

\* _handle_close
HandleClose ==
    /\ visible
    /\ visible' = FALSE
    /\ UNCHANGED <<endpoint_input, model_combo, model_combo_options,
                   temperature_slider, provider_vars, chat_vars, call>>

(***************************************************************************)
(* ChatApp: send_message, the worker threads and the shared event loop.    *)
(*                                                                         *)
(* A worker runs _run_async_in_thread: loop.run_until_complete(coro) on    *)
(* the one loop of the application.  run_until_complete refuses a loop     *)
(* that is already running (RuntimeError), wraps the coroutine in a task   *)
(* scheduled on the loop, and runs the loop until the task is done; the    *)
(* loop runs its ready handles one at a time, and process_message has no   *)
(* await in it, so a task step is a whole process_message.  The loop is    *)
(* not thread safe: a worker that passed the first check before another    *)
(* worker took the loop has scheduled its task there all the same, and     *)
(* fails at run_forever's own check.                                       *)
(***************************************************************************)
ChatInputs == { <<>>, <<" ", " ", " ">>, <<"hello">>, <<" ", "hello", " ">> }

NoRequest == [host |-> <<>>, model |-> NONE, messages |-> <<>>, temperature |-> 0]
NoReply == [kind |-> "none"]

NewThread(user_message) ==
    [ pc |-> "start",               \* position in _run_async_in_thread
      user_message |-> user_message,\* the coroutine's argument
      task |-> "none",              \* none, pending, running, done
      callback |-> FALSE,           \* _run_until_complete_cb is registered
      ntodo |-> 0,                  \* _run_once: handles left in this turn
      current |-> 0,                \* the task this thread is executing
      request |-> NoRequest,        \* what the task handed to client.chat
      reply |-> NoReply ]           \* what client.chat came back with

StepHandle(i) == [kind |-> "step", task |-> i]
StopHandle(i) == [kind |-> "stop", task |-> i]

\* a send_message that tests the text as typed, not the stripped text
SendMessageOn_nostrip(text) ==
    IF text = <<>>
    THEN [ chat_input |-> text, chat_display |-> chat_display, threads |-> threads ]
    ELSE [ chat_input |-> <<>>,
           chat_display |-> Append(chat_display, ChatMessage("You", strip(text))),
           threads |-> Append(threads, NewThread(strip(text))) ]

\* send_message on the text of the input field: the fields it leaves
SendMessageOn(text) ==
    LET user_message == strip(text) IN
    IF user_message = <<>>
    THEN [ chat_input |-> text, chat_display |-> chat_display, threads |-> threads ]
    ELSE [ chat_input |-> <<>>,
           chat_display |-> Append(chat_display, ChatMessage("You", user_message)),
           threads |-> Append(threads, NewThread(user_message)) ]

\* the user types text and submits it (on_submit, send button)
SendMessage(text) ==
    /\ strip(text) # <<>> => Len(threads) < MaxSubmits
    /\ LET after == SendMessageOn(text) IN
       /\ chat_input' = after.chat_input
       /\ chat_display' = after.chat_display
       /\ threads' = after.threads
    /\ UNCHANGED <<typing_indicator, loop, provider_vars, panel_vars, call>>

\* a worker that never finds the loop running (one loop per worker)
LoopIsRunning_never == FALSE

\* BaseEventLoop._check_running: is_running()
LoopIsRunning == loop.thread # 0

\* run_until_complete: _check_running(), ensure_future(coro), add_done_callback
RunUntilComplete(i) ==
    /\ threads[i].pc = "start"
    /\ IF LoopIsRunning
       THEN /\ threads' = [threads EXCEPT ![i].pc = "failed"]
            /\ UNCHANGED loop
       ELSE /\ threads' = [threads EXCEPT ![i].pc = "queued", ![i].task = "pending",
                                          ![i].callback = TRUE]
            /\ loop' = [loop EXCEPT !.ready = Append(@, StepHandle(i))]
    /\ UNCHANGED <<chat_input, chat_display, typing_indicator,
                   provider_vars, panel_vars, call>>

\* run_until_complete: run_forever(), which checks again and takes the loop
RunForever(i) ==
    /\ threads[i].pc = "queued"
    /\ IF LoopIsRunning
       THEN /\ threads' = [threads EXCEPT ![i].pc = "failed", ![i].callback = FALSE]
            /\ UNCHANGED loop
       ELSE /\ threads' = [threads EXCEPT ![i].pc = "running"]
            /\ loop' = [loop EXCEPT !.thread = i]
    /\ UNCHANGED <<chat_input, chat_display, typing_indicator,
                   provider_vars, panel_vars, call>>

\* run_forever: "while True: self._run_once(); if self._stopping: break"
LoopRunOnce(i) ==
    /\ threads[i].pc = "running"
    /\ threads[i].ntodo = 0
    /\ threads[i].current = 0
    /\ IF loop.stopping
       THEN /\ loop' = [loop EXCEPT !.thread = 0, !.stopping = FALSE]
            /\ threads' = [threads EXCEPT ![i].pc = "finished",
                                          ![i].callback = FALSE]
       ELSE /\ loop.ready # <<>>
            /\ threads' = [threads EXCEPT ![i].ntodo = Len(loop.ready)]
            /\ UNCHANGED loop
    /\ UNCHANGED <<chat_input, chat_display, typing_indicator,
                   provider_vars, panel_vars, call>>

\* _run_once runs _run_until_complete_cb: loop.stop()
LoopRunStop(i) ==
    /\ threads[i].pc = "running"
    /\ threads[i].ntodo > 0
    /\ threads[i].current = 0
    /\ loop.ready # <<>>
    /\ Head(loop.ready).kind = "stop"
    /\ loop' = [loop EXCEPT !.ready = Tail(@), !.stopping = TRUE]
    /\ threads' = [threads EXCEPT ![i].ntodo = @ - 1]
    /\ UNCHANGED <<chat_input, chat_display, typing_indicator,
                   provider_vars, panel_vars, call>>

\* process_message, lines 643-647: what it asks of the backend
process_message_request(user_message) ==
    ChatRequest(client, model_name, temperature,
                << [role |-> "user", content |-> user_message] >>,
                <<temperature>>)

\* _run_once runs a task: process_message up to the call of client.chat
ProcessMessageBegin(i) ==
    /\ threads[i].pc = "running"
    /\ threads[i].ntodo > 0
    /\ threads[i].current = 0
    /\ loop.ready # <<>>
    /\ Head(loop.ready).kind = "step"
    /\ LET j == Head(loop.ready).task IN
       /\ typing_indicator' = TRUE
       /\ chat_display' = Append(chat_display, TypingIndicator)
       /\ threads' = [threads EXCEPT
              ![i].ntodo = @ - 1,
              ![i].current = j,
              ![j].task = "running",
              ![j].request = process_message_request(threads[j].user_message)]
       /\ loop' = [loop EXCEPT !.ready = Tail(@)]
    /\ UNCHANGED <<chat_input, provider_vars, panel_vars, call>>

\* the backend answers the call of client.chat, or the call fails
ChatResponds(j, outcome) ==
    /\ threads[j].task = "running"
    /\ threads[j].reply = NoReply
    /\ threads' = [threads EXCEPT ![j].reply = outcome]
    /\ UNCHANGED <<chat_input, chat_display, typing_indicator, loop,
                   provider_vars, panel_vars, call>>

\* a process_message that takes the last control for the typing indicator
process_message_display_pop(controls, response) ==
    Append(SubSeq(controls, 1, Len(controls) - 1), ChatMessage("Bot", response))

\* a process_message that leaves the typing indicator in the list
process_message_display_keep(controls, response) ==
    Append(controls, ChatMessage("Bot", response))

\* process_message, lines 649-657: the controls after the response
process_message_display(controls, response) ==
    Append(IF Contains(controls, TypingIndicator)
           THEN Remove(controls, TypingIndicator)
           ELSE controls,
           ChatMessage("Bot", response))

\* the rest of process_message, once client.chat has returned or raised
ProcessMessageEnd(i) ==
    /\ threads[i].pc = "running"
    /\ threads[i].current # 0
    /\ LET j == threads[i].current IN
       /\ threads[j].reply # NoReply
       /\ typing_indicator' = FALSE
       /\ chat_display' =
              process_message_display(chat_display,
                                      generate_chat(threads[j].reply).value)
       /\ threads' = [threads EXCEPT
              ![i].current = 0,
              ![j].task = "done",
              ![j].request = NoRequest,
              ![j].reply = NoReply]
       /\ loop' = [loop EXCEPT
              !.ready = IF threads[j].callback THEN Append(@, StopHandle(j)) ELSE @]
    /\ UNCHANGED <<chat_input, provider_vars, panel_vars, call>>

(***************************************************************************)
(* The application after ChatApp.__init__.                                 *)
(***************************************************************************)
AppInit(outcome, first_call) ==
    LET self == OllamaProviderInit(DefaultHost, DefaultModel, outcome) IN
    /\ host = self.host
    /\ client = self.client
    /\ model_name = self.model_name
    /\ temperature = self.temperature
    /\ visible = FALSE
    /\ endpoint_input = self.host
    /\ model_combo = NONE
    /\ model_combo_options = <<>>
    /\ temperature_slider = DefaultTemperature
    /\ chat_input = <<>>
    /\ chat_display = << ChatMessage("Bot", WelcomeText) >>
    /\ typing_indicator = FALSE
    /\ threads = <<>>
    /\ loop = [thread |-> 0, ready |-> <<>>, stopping |-> FALSE]
    /\ call = first_call

Init == \E outcome \in ListOutcomes : AppInit(outcome, NoCall)

\* the request lifecycle: submits, workers, the loop and the backend
Next ==
    \/ \E text \in ChatInputs : SendMessage(text)
    \/ \E i \in 1..Len(threads) : RunUntilComplete(i)
    \/ \E i \in 1..Len(threads) : RunForever(i)
    \/ \E i \in 1..Len(threads) : LoopRunOnce(i)
    \/ \E i \in 1..Len(threads) : LoopRunStop(i)
    \/ \E i \in 1..Len(threads) : ProcessMessageBegin(i)
    \/ \E j \in 1..Len(threads) : \E outcome \in ChatOutcomes : ChatResponds(j, outcome)
    \/ \E i \in 1..Len(threads) : ProcessMessageEnd(i)

Spec == Init /\ [][Next]_vars

(***************************************************************************)
(* The application: the request lifecycle together with the settings       *)
(* panel, which the user may open, edit, refresh, save and close at any    *)
(* time, also while a request is under way.                                *)
(***************************************************************************)
\* what client.list() gives while the panel is used
PanelOutcomes ==
    { Raises(ConnectionRefused),
      Returns([models |-> <<EntryWithName(OtherModel), EntryWithName(DefaultModel)>>]) }

NextApp ==
    \/ \E text \in ChatInputs : Len(threads) < MaxAppSubmits /\ SendMessage(text)
    \/ \E i \in 1..Len(threads) : RunUntilComplete(i)
    \/ \E i \in 1..Len(threads) : RunForever(i)
    \/ \E i \in 1..Len(threads) : LoopRunOnce(i)
    \/ \E i \in 1..Len(threads) : LoopRunStop(i)
    \/ \E i \in 1..Len(threads) : ProcessMessageBegin(i)
    \/ \E j \in 1..Len(threads) : \E outcome \in ChatOutcomes : ChatResponds(j, outcome)
    \/ \E i \in 1..Len(threads) : ProcessMessageEnd(i)
    \/ \E outcome \in PanelOutcomes : ToggleVisibility(outcome)
    \/ \E text \in EndpointInputs : EditEndpoint(text)
    \/ \E name \in {DefaultModel, OtherModel} : SelectModel(name)
    \/ \E t \in SliderInputs : SlideTemperature(t)
    \/ \E outcome \in PanelOutcomes : RefreshModels(outcome)
    \/ \E outcome \in PanelOutcomes : HandleSave(outcome)
    \/ HandleClose

SpecApp == Init /\ [][NextApp]_vars

(***************************************************************************)
(* The operations applied one by one, each to inputs and a backend outcome *)
(* drawn from the sets below; until its caller takes the result, call      *)
(* records the operation, what it was given, the provider's fields before  *)
(* it and what it gave back.  The panel's handlers are applied to the     *)
(* values they read from their widgets, with an on_save observer that is   *)
(* counted; what they write to the dropdown is recorded in call.           *)
(***************************************************************************)
ModelNameInputs == { DefaultModel, OtherModel, "nonexistent" }
ComboInputs == { NONE, DefaultModel, OtherModel, NoModelsFound }
TemperatureInputs == { 0 - 10, SliderMax, 50 }
TemperatureArgs == { <<>>, <<50>> }
UserMessages == << [role |-> "user", content |-> <<"hello">>] >>
Prompt == <<"hello">>

UnitFrame ==
    UNCHANGED <<visible, endpoint_input, temperature_slider, chat_vars>>

\* no operation is under way
Returned == call.op = "none"

\* the caller takes what the operation gave back
TakeResult ==
    /\ ~Returned
    /\ call' = NoCall
    /\ UNCHANGED <<provider_vars, panel_vars, chat_vars>>

CallGenerateChat(arg, outcome) ==
    /\ Returned
    /\ call' = [ op |-> "generate_chat", outcome |-> outcome,
                 request |-> ChatRequest(client, model_name, temperature,
                                         UserMessages, arg),
                 result |-> generate_chat(outcome) ]
    /\ UNCHANGED <<provider_vars, model_combo, model_combo_options>>
    /\ UnitFrame

CallGenerateText(arg, outcome) ==
    /\ Returned
    /\ call' = [ op |-> "generate_text", outcome |-> outcome,
                 request |-> GenerateRequest(client, model_name, temperature,
                                             Prompt, arg),
                 result |-> generate_text(outcome) ]
    /\ UNCHANGED <<provider_vars, model_combo, model_combo_options>>
    /\ UnitFrame

CallGenerateJson(outcome) ==
    /\ Returned
    /\ call' = [ op |-> "generate_json", outcome |-> outcome,
                 request |-> GenerateRequest(client, model_name, temperature,
                                             formatted_prompt(Prompt), <<>>),
                 result |-> generate_json(outcome) ]
    /\ UNCHANGED <<provider_vars, model_combo, model_combo_options>>
    /\ UnitFrame

CallGetAvailableModels(outcome) ==
    /\ Returned
    /\ call' = [ op |-> "get_available_models", outcome |-> outcome,
                 result |-> get_available_models(outcome) ]
    /\ UNCHANGED <<provider_vars, model_combo, model_combo_options>>
    /\ UnitFrame

CallGetRunningModels(outcome) ==
    /\ Returned
    /\ call' = [ op |-> "get_running_models", outcome |-> outcome,
                 result |-> get_running_models(outcome) ]
    /\ UNCHANGED <<provider_vars, model_combo, model_combo_options>>
    /\ UnitFrame

CallGetModelInfo(outcome) ==
    /\ Returned
    /\ call' = [ op |-> "get_model_info", outcome |-> outcome,
                 result |-> get_model_info(outcome) ]
    /\ UNCHANGED <<provider_vars, model_combo, model_combo_options>>
    /\ UnitFrame

CallPullModel(name, outcome) ==
    /\ Returned
    /\ call' = [ op |-> "pull_model", outcome |-> outcome,
                 result |-> pull_model(name, outcome) ]
    /\ UNCHANGED <<provider_vars, model_combo, model_combo_options>>
    /\ UnitFrame

CallDeleteModel(outcome) ==
    /\ Returned
    /\ call' = [ op |-> "delete_model", outcome |-> outcome,
                 result |-> delete_model(outcome) ]
    /\ UNCHANGED <<provider_vars, model_combo, model_combo_options>>
    /\ UnitFrame

CallSetModel(name, outcome) ==
    LET r == set_model(model_name, name, outcome) IN
    /\ Returned
    /\ model_name' = r.model_name
    /\ call' = [ op |-> "set_model", outcome |-> outcome, name |-> name,
                 before |-> Self,
                 result |-> [raised |-> r.raised, value |-> r.value] ]
    /\ UNCHANGED <<host, client, temperature, model_combo, model_combo_options>>
    /\ UnitFrame

CallRefreshModels(endpoint_raw, outcome) ==
    LET after == refresh_endpoint(host, client, endpoint_raw)
        w == populate_models(model_name, model_combo, outcome)
    IN
    /\ Returned
    /\ host' = after.host
    /\ client' = after.client
    /\ call' = [ op |-> "_refresh_models", endpoint |-> strip(endpoint_raw),
                 before |-> Self, options |-> w.options, value |-> w.value ]
    /\ UNCHANGED <<model_name, temperature, model_combo, model_combo_options>>
    /\ UnitFrame

CallHandleSave(model_name_in, endpoint_raw, temperature_in, outcome) ==
    LET after == handle_save(Self, model_name_in, endpoint_raw, temperature_in,
                             outcome)
    IN
    /\ Returned
    /\ host' = after.host
    /\ client' = after.client
    /\ model_name' = after.model_name
    /\ temperature' = after.temperature
    /\ call' = [ op |-> "_handle_save", model_name_in |-> model_name_in,
                 endpoint |-> strip(endpoint_raw),
                 temperature_in |-> temperature_in,
                 before |-> Self,
                 notified |-> IF after.saved THEN 1 ELSE 0 ]
    /\ UNCHANGED <<model_combo, model_combo_options>>
    /\ UnitFrame

\* OllamaProvider(host, model_name): a provider is constructed
CallConstruct(host_arg, model_name_arg, outcome) ==
    LET self == OllamaProviderInit(host_arg, model_name_arg, outcome) IN
    /\ Returned
    /\ host' = self.host
    /\ client' = self.client
    /\ model_name' = self.model_name
    /\ temperature' = self.temperature
    /\ call' = [ op |-> "__init__", outcome |-> outcome,
                 model_name |-> model_name_arg ]
    /\ UNCHANGED <<model_combo, model_combo_options>>
    /\ UnitFrame

InitUnit ==
    \E outcome \in ListOutcomes :
        AppInit(outcome, [op |-> "__init__", outcome |-> outcome,
                          model_name |-> DefaultModel])

NextUnit ==
    \/ \E arg \in TemperatureArgs, outcome \in ChatOutcomes :
           CallGenerateChat(arg, outcome)
    \/ \E arg \in TemperatureArgs, outcome \in GenerateOutcomes :
           CallGenerateText(arg, outcome)
    \/ \E outcome \in JsonOutcomes : CallGenerateJson(outcome)
    \/ \E outcome \in ListOutcomes : CallGetAvailableModels(outcome)
    \/ \E outcome \in ListOutcomes : CallGetRunningModels(outcome)
    \/ \E outcome \in ShowOutcomes : CallGetModelInfo(outcome)
    \/ \E name \in ModelNameInputs, outcome \in AdminOutcomes :
           CallPullModel(name, outcome)
    \/ \E outcome \in AdminOutcomes : CallDeleteModel(outcome)
    \/ \E name \in ModelNameInputs, outcome \in ListOutcomes :
           CallSetModel(name, outcome)
    \/ \E e \in EndpointInputs, outcome \in ListOutcomes :
           CallRefreshModels(e, outcome)
    \/ \E m \in ComboInputs, e \in EndpointInputs, t \in TemperatureInputs,
          outcome \in ListOutcomes :
           CallHandleSave(m, e, t, outcome)
    \/ \E name \in ModelNameInputs, outcome \in ListOutcomes :
           CallConstruct(DefaultHost, name, outcome)
    \/ TakeResult

SpecUnit == InitUnit /\ [][NextUnit]_vars

(***************************************************************************)
(* The session, as the transcript and the requests under way.              *)
(***************************************************************************)
\* the submits whose call of client.chat is outstanding
OutstandingCalls == { j \in 1..Len(threads) : threads[j].task = "running" }

\* submit j has not been answered and its worker or task is still on its way
Outstanding(j) ==
    \/ threads[j].task \in {"pending", "running"}
    \/ threads[j].task = "none" /\ threads[j].pc = "start"

AwaitingResponse == \E j \in 1..Len(threads) : Outstanding(j)
Idle == ~AwaitingResponse

Answered == { j \in 1..Len(threads) : threads[j].task = "done" }

\* C1: in every reachable state at most one call of client.chat is outstanding,
\* also when send_message is issued while an earlier request has not completed.
C1_AtMostOneChatCall == Cardinality(OutstandingCalls) <= 1

\* a second submit was made, and its worker refused, while the first call is out
C1_Witness ==
    \E j, k \in 1..Len(threads) :
        /\ j # k
        /\ threads[j].task = "running"
        /\ threads[k].pc = "failed"

\* the step is an accepted submit: send_message started a worker
SubmitStep == Len(threads') = Len(threads) + 1

\* the step completes submit j: process_message has displayed its answer
Completes(j) == threads[j].task = "running" /\ threads'[j].task = "done"

\* client.chat came back with a message that has a content
Succeeds(reply) ==
    /\ reply.kind = "return"
    /\ IsDict(reply.payload)
    /\ "message" \in DOMAIN reply.payload
    /\ IsDict(reply.payload.message)
    /\ "content" \in DOMAIN reply.payload.message

\* after the step no request is outstanding, if none but j was before it
ReturnsToIdle(j) ==
    /\ ~Outstanding(j)'
    /\ (\A k \in 1..Len(threads) : k # j => ~Outstanding(k)) => Idle'

C2_Count == Len(Messages(chat_display)) = 1 + Len(threads) + Cardinality(Answered)

C2_Submit ==
    (SubmitStep /\ Idle) =>
        /\ \E text \in ChatInputs :
               /\ strip(text) # <<>>
               /\ chat_display' = Append(chat_display, ChatMessage("You", strip(text)))
        /\ AwaitingResponse'

C2_Success(j) ==
    (Completes(j) /\ Succeeds(threads[j].reply)) =>
        /\ Messages(chat_display') =
               Append(Messages(chat_display),
                      ChatMessage("Bot", threads[j].reply.payload.message.content))
        /\ ReturnsToIdle(j)

\* C2: a submit of a non-empty text while idle appends exactly one User message
\* in the same step and leaves the session awaiting a response; when client.chat
\* succeeds with text t, exactly one Assistant message with text t is appended and
\* the request is no longer outstanding; the transcript holds the welcome line,
\* one message per submit and one per answer, so submit and answer add two.
C2_SubmitThenAnswer ==
    /\ []C2_Count
    /\ [][C2_Submit /\ \A j \in 1..Len(threads) : C2_Success(j)]_vars

\* "hello" was submitted while idle and answered with "hi there"
C2_Witness ==
    /\ Len(threads) = 1
    /\ threads[1].task = "done"
    /\ Messages(chat_display) =
           << ChatMessage("Bot", WelcomeText), ChatMessage("You", <<"hello">>),
              ChatMessage("Bot", ReplyText) >>
    /\ Idle

C3_Failure(j) ==
    (Completes(j) /\ generate_chat_try(threads[j].reply).raised) =>
        LET r == generate_chat_try(threads[j].reply).reason
            before == Messages(chat_display)
            after == Messages(chat_display')
        IN
        /\ Len(after) = Len(before) + 1
        /\ SubSeq(after, 1, Len(before)) = before
        /\ after[Len(after)].user_name = "Bot"
        /\ Head(after[Len(after)].text) = "Error: "
        /\ ContainsText(after[Len(after)].text, r)
        /\ ~typing_indicator'
        /\ ReturnsToIdle(j)

\* C3: when the call of client.chat for an outstanding request fails with reason
\* r, the step that completes the request appends exactly one Assistant message,
\* whose text starts with "Error: " and contains r, and the request is no longer
\* outstanding.
C3_FailureIsShown == [][\A j \in 1..Len(threads) : C3_Failure(j)]_vars

\* a request failed with "connection refused" and the transcript says so
C3_Witness ==
    /\ Len(threads) = 1
    /\ threads[1].task = "done"
    /\ Messages(chat_display) =
           << ChatMessage("Bot", WelcomeText), ChatMessage("You", <<"hello">>),
              ChatMessage("Bot", <<"Error: ">> \o ConnectionRefused) >>
    /\ Idle

\* send_message leaves the transcript and the workers alone on an empty text
C4_Rejects ==
    \A text \in ChatInputs :
        strip(text) = <<>> =>
            /\ SendMessageOn(text).chat_display = chat_display
            /\ SendMessageOn(text).threads = threads

\* a step that leaves a text in the input field is a submit that was refused
C4_RefusedStep ==
    (chat_input' # chat_input /\ chat_input' # <<>>) =>
        /\ strip(chat_input') = <<>>
        /\ UNCHANGED <<chat_display, typing_indicator, threads, loop>>
        /\ Idle => Idle'

\* C4: a submit of an empty or whitespace-only text is a no-op: the transcript
\* is unchanged, no worker and no call of client.chat is started, and an idle
\* session stays idle.
C4_EmptySubmitIsNoOp == []C4_Rejects /\ [][C4_RefusedStep]_vars

\* "   " was submitted first: nothing but the input field shows it
C4_Witness ==
    /\ chat_input = <<" ", " ", " ">>
    /\ threads = <<>>
    /\ chat_display = << ChatMessage("Bot", WelcomeText) >>
    /\ Idle

\* the role a transcript message has for the backend
RoleOf(user_name) == IF user_name = "You" THEN "user" ELSE "assistant"

RECURSIVE HistoryOf(_)
HistoryOf(msgs) ==
    IF msgs = <<>> THEN <<>>
    ELSE << [role |-> RoleOf(Head(msgs).user_name), content |-> Head(msgs).text] >>
             \o HistoryOf(Tail(msgs))

\* the place of submit j's User message in the transcript
PosOfSubmit(msgs, j) ==
    CHOOSE p \in 1..Len(msgs) :
        /\ msgs[p].user_name = "You"
        /\ Cardinality({ q \in 1..p : msgs[q].user_name = "You" }) = j

\* C6: every call of client.chat carries the conversation so far, in order, up to
\* the User message of its submit (the welcome line counted or not), and uses the
\* provider's model and host.
C6_FullHistory ==
    \A j \in 1..Len(threads) :
        threads[j].task = "running" =>
            LET msgs == Messages(chat_display)
                p == PosOfSubmit(msgs, j)
            IN
            /\ \/ threads[j].request.messages = HistoryOf(SubSeq(msgs, 1, p))
               \/ threads[j].request.messages = HistoryOf(SubSeq(msgs, 2, p))
            /\ threads[j].request.model = model_name
            /\ threads[j].request.host = client

(***************************************************************************)
(* The provider's operations and the panel's handlers, one by one.         *)
(***************************************************************************)
ProviderOps ==
    { "generate_chat", "generate_text", "get_available_models",
      "get_running_models", "get_model_info", "pull_model", "delete_model",
      "set_model" }

\* the backend call of the operation failed: no connection, or an error status
BackendFailed == call.outcome.kind = "raise"

\* the value an operation gave back says that it failed
ErrorTagged(op, value) ==
    CASE op \in {"generate_chat", "generate_text"} -> Head(value) = "Error: "
      [] op \in {"get_model_info", "pull_model"} -> "error" \in DOMAIN value
      [] op \in {"delete_model", "set_model"} -> value = FALSE
      [] op \in {"get_available_models", "get_running_models"} ->
             \A c \in Catalogs : value # c

\* C5: for every outcome of the backend each of the eight provider operations
\* returns a value and does not raise, and the value it returns when the backend
\* call failed is tagged as an error.
C5_NoFaultEscapes ==
    call.op \in ProviderOps =>
        /\ ~call.result.raised
        /\ BackendFailed => ErrorTagged(call.op, call.result.value)

\* the save went as far as set_model
SaveAttemptsModel ==
    Truthy(call.model_name_in) /\ call.model_name_in # NoModelsFound

\* C7: after a save either endpoint, client, model and temperature hold the
\* values being saved and on_save was called once, or none of the four has
\* changed and on_save was not called.
C7_SaveIsAtomic ==
    call.op = "_handle_save" =>
        \/ /\ host = call.endpoint
           /\ client = call.endpoint
           /\ SaveAttemptsModel => model_name = call.model_name_in
           /\ temperature = call.temperature_in
           /\ call.notified = 1
        \/ /\ Self = call.before
           /\ call.notified = 0

\* the names a listing holds, under either key of its entries
ListedNames(outcome) ==
    IF outcome.kind = "return" /\ IsDict(outcome.payload)
           /\ "models" \in DOMAIN outcome.payload
    THEN LET models == outcome.payload.models IN
         { DictGet(models[i], "name", NONE) : i \in 1..Len(models) }
             \cup { DictGet(models[i], "model", NONE) : i \in 1..Len(models) }
    ELSE {}

\* C8: set_model(name) returns True only if name is in the listing it fetched,
\* and then holds name; when name is not in the listing, or the listing failed,
\* it returns False and the provider's model is the one it had before.
C8_SetModelValidates ==
    call.op = "set_model" =>
        /\ call.result.value =>
               /\ call.name \in ListedNames(call.outcome)
               /\ model_name = call.name
        /\ call.name \notin ListedNames(call.outcome) =>
               /\ call.result.value = FALSE
               /\ model_name = call.before.model_name

\* set_model("nonexistent") against a catalog without it: refused, model kept
C8_Witness ==
    /\ call.op = "set_model"
    /\ call.name = "nonexistent"
    /\ call.outcome = Returns([models |-> <<EntryWithName(DefaultModel)>>])
    /\ call.result.value = FALSE
    /\ call.before.model_name = DefaultModel
    /\ model_name = DefaultModel

\* C9: a backend that answers with zero models yields the empty sequence, and a
\* backend that cannot be reached yields a result that is not the result of the
\* empty catalog.
C9_FailureIsNotEmptyCatalog ==
    call.op = "get_available_models" =>
        /\ call.outcome = Returns([models |-> <<>>]) => call.result.value = <<>>
        /\ BackendFailed =>
               call.result # get_available_models(Returns([models |-> <<>>]))

Clamp(t) ==
    IF t < SliderMin THEN SliderMin ELSE IF t > SliderMax THEN SliderMax ELSE t

\* C10: the provider's temperature lies in [0.0, 2.0], a save stores the value
\* it was given clamped to that range, and no generation call is issued with a
\* temperature outside it.
C10_TemperatureClamped ==
    /\ temperature \in SliderRange
    /\ (call.op = "_handle_save" /\ call.notified = 1) =>
           temperature = Clamp(call.temperature_in)
    /\ call.op \in {"generate_chat", "generate_text"} =>
           call.request.temperature \in SliderRange

\* the entries of a listing the backend gave, when each is a dict with a 'model'
WellFormedListing(outcome) ==
    /\ outcome.kind = "return"
    /\ IsDict(outcome.payload)
    /\ "models" \in DOMAIN outcome.payload
    /\ \A i \in 1..Len(outcome.payload.models) :
           /\ IsDict(outcome.payload.models[i])
           /\ "model" \in DOMAIN outcome.payload.models[i]

\* the listing at construction is empty, or could not be had
NoListing(outcome) ==
    \/ outcome.kind = "raise"
    \/ ~IsDict(outcome.payload)
    \/ "models" \notin DOMAIN outcome.payload
    \/ outcome.payload.models = <<>>

\* C11: after construction with a preferred name, against a non-empty listing of
\* model entries: the preferred name is selected if the listing has it, the first
\* entry's name otherwise, so the selected model is in the listing; against an
\* empty or a failed listing the selected model is None.
C11_DefaultModel ==
    call.op = "__init__" =>
        /\ (WellFormedListing(call.outcome) /\ ~NoListing(call.outcome)) =>
               LET models == call.outcome.payload.models
                   names == { models[i].model : i \in 1..Len(models) }
               IN
               /\ call.model_name \in names => model_name = call.model_name
               /\ call.model_name \notin names => model_name = models[1].model
               /\ model_name \in names
        /\ NoListing(call.outcome) => model_name = NONE

\* the preferred name is in the listing, but not first, and it is selected
C11_Witness ==
    /\ call.op = "__init__"
    /\ call.model_name = DefaultModel
    /\ call.outcome =
           Returns([models |-> <<EntryModelOnly(OtherModel), EntryModelOnly(DefaultModel)>>])
    /\ model_name = DefaultModel

\* C12: a refresh or a save with an endpoint that differs from the provider's
\* host records it as the host and builds the client for it, and with the
\* provider's own host changes neither (a refresh takes an empty field for no
\* endpoint); so in every state the client is the one built for the recorded
\* host, and a generation call goes to that host.
C12_ClientTargetsHost ==
    /\ client = host
    /\ call.op = "_refresh_models" =>
           IF call.endpoint # <<>> /\ call.endpoint # call.before.host
           THEN host = call.endpoint /\ client = call.endpoint
           ELSE host = call.before.host /\ client = call.before.client
    /\ call.op = "_handle_save" =>
           IF call.endpoint # call.before.host
           THEN host = call.endpoint /\ client = call.endpoint
           ELSE host = call.before.host /\ client = call.before.client
    /\ call.op \in {"generate_chat", "generate_text"} => call.request.host = host

\* a refresh with another endpoint: host and client have moved to it
C12_Witness ==
    /\ call.op = "_refresh_models"
    /\ call.before.host = DefaultHost
    /\ call.endpoint = OtherHost
    /\ host = OtherHost
    /\ client = OtherHost

\* C13: only a submit and the completion of a request add messages to the
\* transcript: every other step (listing, describing, refreshing, saving
\* settings), with or without a request outstanding, leaves its messages as
\* they are.
C13_OnlyChatAppends ==
    [][(~SubmitStep /\ ~(\E j \in 1..Len(threads) : Completes(j))) =>
           Messages(chat_display') = Messages(chat_display)]_vars

\* C14: after the welcome line, User and Assistant messages alternate in the
\* transcript: the answer to a submit stands right after its User message and
\* before the User message of any later submit.
C14_StrictAlternation ==
    LET msgs == Tail(Messages(chat_display)) IN
    \A p \in 1..Len(msgs) :
        msgs[p].user_name = IF p % 2 = 1 THEN "You" ELSE "Bot"

\* the text is a JSON document, bare or inside a code fence that is closed
\* (or runs to the end of the text), with any white space around it
IsJsonText(text) ==
    \/ strip(text) = <<JsonDoc>>
    \/ \E i \in 1..Len(text) : \E k \in i..Len(text) :
           /\ text[i] \in {Fence, FenceJson}
           /\ k = Len(text) \/ text[k + 1] \in {Fence, FenceJson}
           /\ strip(SubSeq(text, i + 1, k)) = <<JsonDoc>>

\* C15: generate_json does not raise, and for every raw text of generate_text
\* that is no JSON document, fenced or bare, among them the "Error: ..." text
\* of a failed generate_text, it returns an error result that holds the raw
\* text as it was, together with the parse error.
C15_UnparseableGivesError ==
    call.op = "generate_json" =>
        LET raw == generate_text(call.outcome).value IN
        /\ ~call.result.raised
        /\ ~IsJsonText(raw) =>
               /\ DOMAIN call.result.value = {"error", "raw_text"}
               /\ call.result.value.raw_text = raw
               /\ Head(call.result.value.error) = "Failed to parse JSON: "
               /\ Len(call.result.value.error) > 1

\* the model answered " not json": the error result holds that text, padding too
C15_Witness ==
    /\ call.op = "generate_json"
    /\ call.outcome = Returns([response |-> <<" ", "not json">>])
    /\ call.result.value.raw_text = <<" ", "not json">>

\* s is an initial part of t
IsPrefix(s, t) == Len(s) <= Len(t) /\ SubSeq(t, 1, Len(s)) = s

\* the controls of the list other than the typing indicator
RECURSIVE Persistent(_)
Persistent(controls) ==
    IF controls = <<>> THEN <<>>
    ELSE IF Head(controls) = TypingIndicator THEN Persistent(Tail(controls))
         ELSE <<Head(controls)>> \o Persistent(Tail(controls))

\* C16: in every step the User and Assistant messages already in the transcript
\* stay as they are and in their order, new ones come at the end, and nothing
\* but the typing indicator is ever taken out of the displayed list.
C16_AppendOnly ==
    [][/\ IsPrefix(Messages(chat_display), Messages(chat_display'))
       /\ IsPrefix(Persistent(chat_display), Persistent(chat_display'))]_vars

\* the typing indicator was taken out from between two messages: a second
\* submit came while the first was being answered
C16_Witness ==
    /\ Len(threads) = 2
    /\ threads[1].task = "done"
    /\ threads[2].pc = "failed"
    /\ chat_display =
           << ChatMessage("Bot", WelcomeText), ChatMessage("You", <<"hello">>),
              ChatMessage("You", <<"hello">>), ChatMessage("Bot", ReplyText) >>

\* the worker of submit j has ended in run_until_complete's RuntimeError before
\* process_message was handed to the loop: nothing is left that could run it
Refused(j) == threads[j].pc = "failed" /\ threads[j].task = "none"

\* C17: every accepted submit is answered in the end, one issued while an
\* earlier request is running on the shared loop included: its worker runs
\* process_message, so no worker ends without having scheduled it.
C17_EverySubmitIsRun == \A j \in 1..Len(threads) : ~Refused(j)

\* a refused submit stays refused and its thread never moves again
C17_RefusedForGood ==
    [][\A j \in 1..Len(threads) : Refused(j) => threads'[j] = threads[j]]_vars

\* the names the constructor's fallback and the dropdown take from a listing:
\* the 'model' field of its entries
ModelFields(outcome) ==
    { outcome.payload.models[i].model : i \in 1..Len(outcome.payload.models) }

\* C18: a name taken from the 'model' field of an entry of a listing is accepted
\* by set_model against the same listing: set_model returns True and the
\* provider's model becomes that name.
C18_ListedNameIsAccepted ==
    (/\ call.op = "set_model"
     /\ WellFormedListing(call.outcome)
     /\ call.name \in ModelFields(call.outcome)) =>
        /\ call.result.value = TRUE
        /\ model_name = call.name

\* how often the typing indicator stands in the displayed list
TypingShown == Len(chat_display) - Len(Persistent(chat_display))

\* C19: in every reachable state, while a call of generate_chat is outstanding
\* the typing indicator is visible and stands exactly once in the displayed
\* list, and while none is outstanding, before a request and after its success
\* or failure, it is hidden and not in the list.
C19_TypingTracksRequest ==
    IF OutstandingCalls # {}
    THEN typing_indicator /\ TypingShown = 1
    ELSE ~typing_indicator /\ TypingShown = 0

\* a first request was answered and the indicator taken away, and it is shown
\* again, once, for the second
C19_Witness ==
    /\ Len(threads) = 2
    /\ threads[1].task = "done"
    /\ threads[2].task = "running"
    /\ typing_indicator
    /\ TypingShown = 1
    /\ Len(Messages(chat_display)) = 4

=============================================================================
